---- MODULE Spec2Model ----
(***************************************************************************)
(* connect-loki: a Loki.js session store for Connect/Express               *)
(* (src/lib/connect-loki.js).                                              *)
(*                                                                         *)
(* The model follows one LokiStore instance from the end of its            *)
(* constructor: the loadDatabase callback, the six store methods, the      *)
(* passage of time, the collection's periodic TTL sweep, the Loki client's *)
(* autosave timer writing the database file, and a later instance          *)
(* constructed on the same file.                                           *)
(*                                                                         *)
(* JavaScript values are modelled as follows.                              *)
(*   - a session payload is a string; "" is the falsy payload (it stands   *)
(*     for every value `if (x)` rejects: "", 0, false, null, undefined);   *)
(*   - an optional number (options.ttl, this.ttl, ttlInterval) is a        *)
(*     sequence: <<>> for undefined/null, <<n>> for the number n;          *)
(*   - a Date is the integer clock reading it was built from; a Date is    *)
(*     an object, hence always truthy, also at clock reading 0;            *)
(*   - the callback's arguments are the strings "null" and "undefined",    *)
(*     or the delivered value.                                             *)
(***************************************************************************)
EXTENDS Integers, Sequences, FiniteSets, TLC

VARIABLES
    options,      \* the options object given to the constructor
    ttl,          \* this.ttl
    collection,   \* this.collection: undefined until the load callback ran
    disk,         \* what the database file at storePath holds
    now,          \* the clock `new Date()` reads
    lastSweep,    \* when the collection's TTL timer was started or last fired
    connects,     \* how many times 'connect' was emitted
    autosave,     \* this.autosave, handed to the Loki client
    raised,       \* how many adapter errors (load, save) have occurred
    logged,       \* how many times this.logger was called
    call          \* the most recent step and what it delivered to its caller

vars == <<options, ttl, collection, disk, now, lastSweep, connects,
          autosave, raised, logged, call>>

----------------------------------------------------------------------------
(* Bounds of the model *)

\* the clock advances at most this many times
MaxTicks == 2

\* the collection holds at most this many records
MaxRecords == 2

\* at most this many adapter errors occur in the life of one instance
MaxErrors == 2

(* Program constants *)

\* the default ttl, `options.ttl || 1209600`
DefaultTtl == 1209600

----------------------------------------------------------------------------
(* Values *)

None == <<>>
Some(n) == <<n>>

Ids == {"a", "b"}

\* the order of the _id strings, "a" < "b"
Rank(id) == IF id = "a" THEN 1 ELSE 2

\* "" is falsy, "p" and "q" are truthy
Payloads == {"", "p", "q"}

Truthy(v) == v # ""

\* options.ttl as the caller may give it: absent, 0, or a positive number
OptionTtls == {None, Some(0), Some(1)}

\* options.autosave as the caller may give it: absent, false, or 0 (falsy but
\* not false)
OptionAutosaves == {"undefined", "false", "0"}

\* the clock moves in steps of one ttl period
TickStep == DefaultTtl

Ticks(t) == t \div TickStep

Undefined == [defined |-> FALSE]

NoFile == [exists |-> FALSE]

\* a database file the adapter cannot load
Corrupt == [exists |-> TRUE, readable |-> FALSE]

NoId == "-"

\* a step that delivers nothing to a caller: the load callback, the clock, a sweep
Background(op) ==
    [op |-> op, id |-> NoId, sess |-> "", matched |-> 0, outcome |-> "none",
     err |-> "undefined", val |-> "undefined", count |-> 0]

\* a store method that ran to the end and invoked fn(err, val); matched is the
\* number of documents its query found in the collection
Delivered(op, id, sess, matched, err, val) ==
    [op |-> op, id |-> id, sess |-> sess, matched |-> matched,
     outcome |-> "callback", err |-> err, val |-> val, count |-> 0]

\* length's fn(null, c): the delivered value is a number
DeliveredCount(op, c) ==
    [op |-> op, id |-> NoId, sess |-> "", matched |-> 0,
     outcome |-> "callback", err |-> "null", val |-> "number", count |-> c]

\* a store method that threw a TypeError (a property read on undefined)
Thrown(op, id, sess) ==
    [op |-> op, id |-> id, sess |-> sess, matched |-> 0, outcome |-> "throw",
     err |-> "TypeError", val |-> "undefined", count |-> 0]

----------------------------------------------------------------------------
(* The constructor's option parsing, lines 42-45 *)

\* an autosave option read by truthiness: 0 would switch autosave off
ParseAutosaveTruthy(opt) == opt \notin {"false", "0"}

\* this.autosave = options.autosave !== false
ParseAutosave(opt) == opt # "false"

\* this.ttl = options.ttl || 1209600; if (this.ttl === 0) { this.ttl = null }
ParseTtl(opt) ==
    LET t == IF opt = None \/ opt[1] = 0 THEN DefaultTtl ELSE opt[1]
    IN  IF t = 0 THEN None ELSE Some(t)

----------------------------------------------------------------------------
(* The Loki collection *)

RECURSIVE SelectSeq2(_, _)
\* the records of data with the given _id, in the order find() yields them
SelectSeq2(data, id) ==
    IF data = <<>> THEN <<>>
    ELSE IF Head(data)._id = id
         THEN <<Head(data)>> \o SelectSeq2(Tail(data), id)
         ELSE SelectSeq2(Tail(data), id)

\* collection.find({ _id })
Find(data, id) == SelectSeq2(data, id)

\* the position in data of the first record find({ _id }) yields, 0 if none
FirstPos(data, id) ==
    IF \E k \in 1..Len(data) : data[k]._id = id
    THEN CHOOSE k \in 1..Len(data) :
            /\ data[k]._id = id
            /\ \A j \in 1..(k - 1) : data[j]._id # id
    ELSE 0

\* the places the binary index on _id may give a new document: data is kept
\* in index order, so the document joins the run of its _id; where in the
\* run (first, last, between) is the index's business
InsertPositions(data, id) ==
    { k \in 1..(Len(data) + 1) :
        /\ \A j \in 1..(k - 1) : Rank(data[j]._id) <= Rank(id)
        /\ \A j \in k..Len(data) : Rank(data[j]._id) >= Rank(id) }

\* collection.insert(doc), the document taking place k of the index
InsertAt(data, k, doc) ==
    SubSeq(data, 1, k - 1) \o <<doc>> \o SubSeq(data, k, Len(data))

RECURSIVE RemoveId(_, _)
\* collection.findAndRemove({ _id }): every matching document goes
RemoveId(data, id) ==
    IF data = <<>> THEN <<>>
    ELSE IF Head(data)._id = id
         THEN RemoveId(Tail(data), id)
         ELSE <<Head(data)>> \o RemoveId(Tail(data), id)

\* collection.count()
Count(data) == Len(data)

\* a document is stale when its age exceeds the ttl
Stale(doc, age, t) == t - doc.updatedAt > age

RECURSIVE RemoveStale(_, _, _)
\* one pass of the TTL sweep
RemoveStale(data, age, t) ==
    IF data = <<>> THEN <<>>
    ELSE IF Stale(Head(data), age, t)
         THEN RemoveStale(Tail(data), age, t)
         ELSE <<Head(data)>> \o RemoveStale(Tail(data), age, t)

\* what get's callback receives for _id from a collection holding data
GetValue(data, id) ==
    LET s == Find(data, id)
    IN  IF s # <<>> /\ Truthy(s[1].session) THEN s[1].session ELSE "undefined"

\* the adapter's serialized form of the documents: one line per document
Serialize(data) ==
    [k \in 1..Len(data) |->
        <<data[k]._id, data[k].session, data[k].updatedAt>>]

\* the documents the adapter reads back from the serialized form
Deserialize(lines) ==
    [k \in 1..Len(lines) |->
        [_id |-> lines[k][1], session |-> lines[k][2], updatedAt |-> lines[k][3]]]

----------------------------------------------------------------------------
(* Initial state: the constructor has returned, loadDatabase is pending *)

\* the database file an earlier instance, given the same options, left behind
Snapshot(opts) ==
    [exists |-> TRUE, readable |-> TRUE,
     data |-> Serialize(<<[_id |-> "a", session |-> "p", updatedAt |-> 0]>>),
     ttlInterval |-> ParseTtl(opts.ttl)]

\* what the constructor leaves, given its options and the file at storePath
Constructed(opts, file) ==
    /\ options = opts
    /\ ttl = ParseTtl(opts.ttl)
    /\ autosave = ParseAutosave(opts.autosave)
    /\ collection = Undefined
    /\ disk = file
    /\ now = 0
    /\ lastSweep = 0
    /\ connects = 0
    /\ raised = 0
    /\ logged = 0
    /\ call = Background("new")

Init ==
    \E opts \in [ttl : OptionTtls, autosave : {"undefined"}] :
        \E file \in {NoFile, Snapshot(opts)} :
            Constructed(opts, file)

----------------------------------------------------------------------------
(* The loadDatabase callback, lines 72-84 *)

\* a load callback that creates the collection without ttlInterval
LoadNoInterval ==
    /\ ~collection.defined
    /\ collection' =
          IF disk.exists /\ disk.readable
          THEN [defined |-> TRUE, data |-> Deserialize(disk.data),
                ttlInterval |-> disk.ttlInterval]
          ELSE [defined |-> TRUE, data |-> <<>>, ttlInterval |-> None]
    /\ raised' = IF disk.exists /\ ~disk.readable THEN raised + 1 ELSE raised
    /\ lastSweep' = now
    /\ connects' = connects + 1
    /\ call' = Background("load")
    /\ UNCHANGED <<options, ttl, disk, now, autosave, logged>>

\* a load callback that may run again on a store that is already Ready
LoadRepeats ==
    /\ collection' =
          IF disk.exists /\ disk.readable
          THEN [defined |-> TRUE, data |-> Deserialize(disk.data),
                ttlInterval |-> disk.ttlInterval]
          ELSE [defined |-> TRUE, data |-> <<>>, ttlInterval |-> ttl]
    /\ raised' = IF disk.exists /\ ~disk.readable THEN raised + 1 ELSE raised
    /\ lastSweep' = now
    /\ connects' = connects + 1
    /\ call' = Background("load")
    /\ UNCHANGED <<options, ttl, disk, now, autosave, logged>>

\* the callback takes no argument: an error the adapter reports is dropped,
\* getCollection then finds nothing and the collection is created anew
Load ==
    /\ ~collection.defined
    /\ collection' =
          IF disk.exists /\ disk.readable
          THEN [defined |-> TRUE, data |-> Deserialize(disk.data),
                ttlInterval |-> disk.ttlInterval]
          ELSE [defined |-> TRUE, data |-> <<>>, ttlInterval |-> ttl]
    /\ raised' = IF disk.exists /\ ~disk.readable THEN raised + 1 ELSE raised
    /\ lastSweep' = now
    /\ connects' = connects + 1
    /\ call' = Background("load")
    /\ UNCHANGED <<options, ttl, disk, now, autosave, logged>>

----------------------------------------------------------------------------
(* The store methods *)

\* get that refreshes the record it reads, as touch does
GetRefreshes(_id) ==
    /\ call' = IF ~collection.defined
               THEN Delivered("get", _id, "", 0, "null", "undefined")
               ELSE Delivered("get", _id, "", Len(Find(collection.data, _id)), "null",
                              GetValue(collection.data, _id))
    /\ collection' =
          IF collection.defined /\ Find(collection.data, _id) # <<>>
          THEN [collection EXCEPT
                  !.data[FirstPos(collection.data, _id)].updatedAt = now]
          ELSE collection
    /\ UNCHANGED <<options, ttl, disk, now, lastSweep, connects, autosave,
                   raised, logged>>

\* get without its `if (!this.collection)` guard: like the other methods, it
\* reads a property of undefined before the load callback has run
GetUnguarded(_id) ==
    /\ call' = IF ~collection.defined
               THEN Thrown("get", _id, "")
               ELSE Delivered("get", _id, "", Len(Find(collection.data, _id)), "null",
                              GetValue(collection.data, _id))
    /\ UNCHANGED <<options, ttl, collection, disk, now, lastSweep, connects, autosave, raised, logged>>

\* LokiStore.prototype.get
Get(_id) ==
    /\ call' = IF ~collection.defined
               THEN Delivered("get", _id, "", 0, "null", "undefined")
               ELSE Delivered("get", _id, "", Len(Find(collection.data, _id)), "null",
                              GetValue(collection.data, _id))
    /\ UNCHANGED <<options, ttl, collection, disk, now, lastSweep, connects, autosave, raised, logged>>

\* set that also writes the database file before it calls back
SetWritesThrough(_id, sess) ==
    \/ /\ ~collection.defined
       /\ call' = Thrown("set", _id, sess)
       /\ UNCHANGED <<options, ttl, collection, disk, now, lastSweep, connects,
                      autosave, raised, logged>>
    \/ /\ collection.defined
       /\ LET s == Find(collection.data, _id)
              k == FirstPos(collection.data, _id)
          IN  IF s # <<>> /\ Truthy(s[1].session)
              THEN collection' =
                     [collection EXCEPT !.data[k].session = sess,
                                        !.data[k].updatedAt = now]
              ELSE /\ Len(collection.data) < MaxRecords
                   /\ \E pos \in InsertPositions(collection.data, _id) :
                        collection' =
                          [collection EXCEPT !.data =
                             InsertAt(@, pos, [_id |-> _id, session |-> sess,
                                               updatedAt |-> now])]
       /\ disk' = [exists |-> TRUE, readable |-> TRUE,
                   data |-> Serialize(collection'.data),
                   ttlInterval |-> collection.ttlInterval]
       /\ call' = Delivered("set", _id, sess, Len(Find(collection.data, _id)),
                            "null", "undefined")
       /\ UNCHANGED <<options, ttl, now, lastSweep, connects, autosave,
                      raised, logged>>

\* LokiStore.prototype.set
Set(_id, sess) ==
    \/ /\ ~collection.defined
       /\ call' = Thrown("set", _id, sess)
       /\ UNCHANGED <<options, ttl, collection, disk, now, lastSweep, connects, autosave, raised, logged>>
    \/ /\ collection.defined
       /\ LET s == Find(collection.data, _id)
              k == FirstPos(collection.data, _id)
          IN  IF s # <<>> /\ Truthy(s[1].session)
              THEN collection' =
                     [collection EXCEPT !.data[k].session = sess,
                                        !.data[k].updatedAt = now]
              ELSE /\ Len(collection.data) < MaxRecords
                   /\ \E pos \in InsertPositions(collection.data, _id) :
                        collection' =
                          [collection EXCEPT !.data =
                             InsertAt(@, pos, [_id |-> _id, session |-> sess,
                                               updatedAt |-> now])]
       /\ call' = Delivered("set", _id, sess, Len(Find(collection.data, _id)),
                            "null", "undefined")
       /\ UNCHANGED <<options, ttl, disk, now, lastSweep, connects, autosave, raised, logged>>

\* destroy whose query lost its _id: findAndRemove({}) removes every document
DestroyEverything(_id) ==
    \/ /\ ~collection.defined
       /\ call' = Thrown("destroy", _id, "")
       /\ UNCHANGED <<options, ttl, collection, disk, now, lastSweep, connects,
                      autosave, raised, logged>>
    \/ /\ collection.defined
       /\ collection' = [collection EXCEPT !.data = <<>>]
       /\ call' = Delivered("destroy", _id, "", Len(Find(collection.data, _id)),
                            "null", "undefined")
       /\ UNCHANGED <<options, ttl, disk, now, lastSweep, connects,
                      autosave, raised, logged>>

\* destroy that reports an error when there is nothing to remove
DestroyStrict(_id) ==
    \/ /\ ~collection.defined
       /\ call' = Thrown("destroy", _id, "")
       /\ UNCHANGED <<options, ttl, collection, disk, now, lastSweep, connects, autosave, raised, logged>>
    \/ /\ collection.defined
       /\ collection' = [collection EXCEPT !.data = RemoveId(@, _id)]
       /\ call' = Delivered("destroy", _id, "", Len(Find(collection.data, _id)),
                            IF Find(collection.data, _id) = <<>>
                            THEN "Error" ELSE "null",
                            "undefined")
       /\ UNCHANGED <<options, ttl, disk, now, lastSweep, connects, autosave, raised, logged>>

\* LokiStore.prototype.destroy
Destroy(_id) ==
    \/ /\ ~collection.defined
       /\ call' = Thrown("destroy", _id, "")
       /\ UNCHANGED <<options, ttl, collection, disk, now, lastSweep, connects, autosave, raised, logged>>
    \/ /\ collection.defined
       /\ collection' = [collection EXCEPT !.data = RemoveId(@, _id)]
       /\ call' = Delivered("destroy", _id, "", Len(Find(collection.data, _id)),
                            "null", "undefined")
       /\ UNCHANGED <<options, ttl, disk, now, lastSweep, connects, autosave, raised, logged>>

\* clear that drops the collection and creates it anew without ttlInterval,
\* which ends its TTL timer
ClearRecreates ==
    \/ /\ ~collection.defined
       /\ call' = Thrown("clear", NoId, "")
       /\ UNCHANGED <<options, ttl, collection, disk, now, lastSweep, connects,
                      autosave, raised, logged>>
    \/ /\ collection.defined
       /\ collection' = [defined |-> TRUE, data |-> <<>>, ttlInterval |-> None]
       /\ call' = Delivered("clear", NoId, "", Len(collection.data),
                            "null", "undefined")
       /\ UNCHANGED <<options, ttl, disk, now, lastSweep, connects,
                      autosave, raised, logged>>

\* clear that removes one document only, the first
ClearFirst ==
    \/ /\ ~collection.defined
       /\ call' = Thrown("clear", NoId, "")
       /\ UNCHANGED <<options, ttl, collection, disk, now, lastSweep, connects, autosave, raised, logged>>
    \/ /\ collection.defined
       /\ collection' = [collection EXCEPT !.data =
                           IF @ = <<>> THEN <<>> ELSE Tail(@)]
       /\ call' = Delivered("clear", NoId, "", Len(collection.data),
                            "null", "undefined")
       /\ UNCHANGED <<options, ttl, disk, now, lastSweep, connects, autosave, raised, logged>>

\* LokiStore.prototype.clear
Clear ==
    \/ /\ ~collection.defined
       /\ call' = Thrown("clear", NoId, "")
       /\ UNCHANGED <<options, ttl, collection, disk, now, lastSweep, connects, autosave, raised, logged>>
    \/ /\ collection.defined
       /\ collection' = [collection EXCEPT !.data = <<>>]
       /\ call' = Delivered("clear", NoId, "", Len(collection.data),
                            "null", "undefined")
       /\ UNCHANGED <<options, ttl, disk, now, lastSweep, connects, autosave, raised, logged>>

\* LokiStore.prototype.length
Length ==
    /\ call' = IF ~collection.defined
               THEN Thrown("length", NoId, "")
               ELSE DeliveredCount("length", Count(collection.data))
    /\ UNCHANGED <<options, ttl, collection, disk, now, lastSweep, connects, autosave, raised, logged>>

\* touch that finds the record and calls back without refreshing updatedAt
TouchForgets(_id, sess) ==
    \/ /\ ~collection.defined
       /\ call' = Thrown("touch", _id, "")
       /\ UNCHANGED <<options, ttl, collection, disk, now, lastSweep, connects,
                      autosave, raised, logged>>
    \/ /\ collection.defined
       /\ call' = Delivered("touch", _id, "", Len(Find(collection.data, _id)),
                            "undefined", "undefined")
       /\ UNCHANGED <<options, ttl, collection, disk, now, lastSweep, connects,
                      autosave, raised, logged>>

\* touch that also writes the session it was given
TouchWritesSession(_id, sess) ==
    \/ /\ ~collection.defined
       /\ call' = Thrown("touch", _id, "")
       /\ UNCHANGED <<options, ttl, collection, disk, now, lastSweep, connects, autosave, raised, logged>>
    \/ /\ collection.defined
       /\ LET s == Find(collection.data, _id)
              k == FirstPos(collection.data, _id)
          IN  collection' =
                IF s # <<>>
                THEN [collection EXCEPT !.data[k].session = sess,
                                        !.data[k].updatedAt = now]
                ELSE collection
       /\ call' = Delivered("touch", _id, "", Len(Find(collection.data, _id)),
                            "undefined", "undefined")
       /\ UNCHANGED <<options, ttl, disk, now, lastSweep, connects, autosave, raised, logged>>

\* touch that creates the record when there is none, as set does
TouchUpserts(_id, sess) ==
    \/ /\ ~collection.defined
       /\ call' = Thrown("touch", _id, "")
       /\ UNCHANGED <<options, ttl, collection, disk, now, lastSweep, connects, autosave, raised, logged>>
    \/ /\ collection.defined
       /\ LET s == Find(collection.data, _id)
              k == FirstPos(collection.data, _id)
          IN  IF s # <<>>
              THEN collection' = [collection EXCEPT !.data[k].updatedAt = now]
              ELSE /\ Len(collection.data) < MaxRecords
                   /\ \E pos \in InsertPositions(collection.data, _id) :
                        collection' =
                          [collection EXCEPT !.data =
                             InsertAt(@, pos, [_id |-> _id, session |-> sess,
                                               updatedAt |-> now])]
       /\ call' = Delivered("touch", _id, "", Len(Find(collection.data, _id)),
                            "undefined", "undefined")
       /\ UNCHANGED <<options, ttl, disk, now, lastSweep, connects, autosave, raised, logged>>

\* LokiStore.prototype.touch
Touch(_id, sess) ==
    \/ /\ ~collection.defined
       /\ call' = Thrown("touch", _id, "")
       /\ UNCHANGED <<options, ttl, collection, disk, now, lastSweep, connects, autosave, raised, logged>>
    \/ /\ collection.defined
       /\ LET s == Find(collection.data, _id)
              k == FirstPos(collection.data, _id)
          IN  \* s[0].updatedAt is a Date, which is always truthy
              collection' =
                IF s # <<>>
                THEN [collection EXCEPT !.data[k].updatedAt = now]
                ELSE collection
       /\ call' = Delivered("touch", _id, "", Len(Find(collection.data, _id)),
                            "undefined", "undefined")
       /\ UNCHANGED <<options, ttl, disk, now, lastSweep, connects, autosave, raised, logged>>

----------------------------------------------------------------------------
(* The environment: the clock and the collection's TTL timer *)

Tick ==
    /\ Ticks(now) < MaxTicks
    /\ now' = now + TickStep
    /\ call' = Background("tick")
    /\ UNCHANGED <<options, ttl, collection, disk, lastSweep, connects, autosave, raised, logged>>

\* the timer started with ttlInterval fires: stale documents are removed
Sweep ==
    /\ collection.defined
    /\ collection.ttlInterval # None
    /\ now - lastSweep >= collection.ttlInterval[1]
    /\ collection' = [collection EXCEPT !.data =
                        RemoveStale(@, collection.ttlInterval[1], now)]
    /\ lastSweep' = now
    /\ call' = [Background("sweep") EXCEPT !.matched =
                   Len(collection.data)
                     - Len(RemoveStale(collection.data,
                                       collection.ttlInterval[1], now))]
    /\ UNCHANGED <<options, ttl, disk, now, connects, autosave, raised, logged>>

----------------------------------------------------------------------------

Next ==
    \/ Load
    \/ \E i \in Ids : Get(i)
    \/ \E i \in Ids, p \in Payloads : Set(i, p)
    \/ \E i \in Ids : Destroy(i)
    \/ Clear
    \/ Length
    \/ \E i \in Ids, p \in Payloads : Touch(i, p)
    \/ Tick
    \/ Sweep

Spec == Init /\ [][Next]_vars

----------------------------------------------------------------------------
(* Persistence: the Loki client is constructed with autosave: this.autosave *)
(* (lines 50-55); its autosave timer writes the whole database to the file  *)
(* at storePath.  The store never calls saveDatabase itself.  A later       *)
(* instance is a new LokiStore constructed on the same file with the same   *)
(* options.  this.logger is called from the collection's 'error' event      *)
(* only (lines 80-82); nothing hands it an error of loadDatabase, whose     *)
(* callback takes no argument (line 72), or of a save.                      *)

\* what a completed save leaves in the database file
Saved(coll) ==
    [exists |-> TRUE, readable |-> TRUE, data |-> Serialize(coll.data),
     ttlInterval |-> coll.ttlInterval]

\* the autosave timer fires and the adapter writes the full database
Autosave ==
    /\ collection.defined
    /\ autosave
    /\ disk' = Saved(collection)
    /\ call' = [Background("save") EXCEPT !.err = "null"]
    /\ UNCHANGED <<options, ttl, collection, now, lastSweep, connects,
                   autosave, raised, logged>>

\* the autosave timer fires and the adapter fails: the file keeps what it held
AutosaveFails ==
    /\ collection.defined
    /\ autosave
    /\ raised < MaxErrors
    /\ raised' = raised + 1
    /\ call' = [Background("save") EXCEPT !.err = "AdapterSaveError"]
    /\ UNCHANGED <<options, ttl, collection, disk, now, lastSweep, connects,
                   autosave, logged>>

\* the process ends and a new LokiStore is constructed on the same file
Restart ==
    /\ collection.defined
    /\ ttl' = ParseTtl(options.ttl)
    /\ autosave' = ParseAutosave(options.autosave)
    /\ collection' = Undefined
    /\ lastSweep' = now
    /\ connects' = 0
    /\ raised' = 0
    /\ logged' = 0
    /\ call' = Background("new")
    /\ UNCHANGED <<options, disk, now>>

\* a store given logErrors, any autosave option, and a file at storePath that
\* is absent, left by an earlier instance, or not loadable
PersistInit ==
    \E opts \in [ttl : {None}, autosave : OptionAutosaves] :
        \E file \in {NoFile, Snapshot(opts), Corrupt} :
            Constructed(opts, file)

PersistNext ==
    \/ Load
    \/ \E _id \in Ids : Get(_id)
    \/ \E _id \in Ids, sess \in {"", "p"} : Set(_id, sess)
    \/ \E _id \in Ids : Destroy(_id)
    \/ Clear
    \/ \E _id \in Ids : Touch(_id, "p")
    \/ Autosave
    \/ AutosaveFails
    \/ Restart

PersistSpec == PersistInit /\ [][PersistNext]_vars

----------------------------------------------------------------------------
(* Expiry on its own: a store that found no database file, used through    *)
(* set, touch and get while time passes.  The TTL timer is a setInterval    *)
(* timer and the clock does not stop: both steps are taken whenever they    *)
(* stay possible.                                                           *)

ExpiryInit ==
    \E opts \in [ttl : OptionTtls, autosave : {"undefined"}] :
        Constructed(opts, NoFile)

ExpiryNext ==
    \/ Load
    \/ \E i \in Ids : Set(i, "p")
    \/ \E i \in Ids : Touch(i, "p")
    \/ \E i \in Ids : Get(i)
    \/ Tick
    \/ Sweep

ExpirySpec ==
    /\ ExpiryInit
    /\ [][ExpiryNext]_vars
    /\ WF_vars(Sweep)
    /\ WF_vars(Tick)

----------------------------------------------------------------------------
(* What the claims speak of *)

FacadeOps == {"get", "set", "destroy", "clear", "length", "touch"}

\* the store is Ready: the load callback has run
Ready == collection.defined

\* the most recent step was the store method op, and it reached its callback
Completed(op) == call.op = op /\ call.outcome = "callback"

\* get's answer "not found" is fn(null): no value
NotFound == "undefined"

\* the distinct _id values of the documents
IdsOf(data) == { data[k]._id : k \in 1..Len(data) }

\* the model keeps data in index order and no timestamp is in the future
ModelSane ==
    Ready =>
        /\ \A j, k \in 1..Len(collection.data) :
              j < k => Rank(collection.data[j]._id) <= Rank(collection.data[k]._id)
        /\ \A k \in 1..Len(collection.data) : collection.data[k].updatedAt <= now
        /\ Len(collection.data) <= MaxRecords
        /\ lastSweep <= now

----------------------------------------------------------------------------
(* C1: on a Ready store, set(id, payload) followed by get(id) delivers      *)
(* exactly that payload to get's callback, for every id and every payload.  *)
(* Stated on the state right after the set: what get(id) would deliver      *)
(* there is the payload the set was given.                                  *)
C1_SetThenGet ==
    Completed("set") => GetValue(collection.data, call.id) = call.sess

(* C2: set(id, p1) then set(id, p2) makes get(id) return p2 and leaves      *)
(* length() as it was after the first set: the second set replaces the      *)
(* record, it does not insert another one.  Stated on the second of two     *)
(* consecutive sets of the same id.                                         *)
C2_SecondSetReplaces ==
    [][ ( /\ Completed("set")
          /\ call'.op = "set" /\ call'.outcome = "callback"
          /\ call'.id = call.id )
        => /\ GetValue(collection'.data, call'.id) = call'.sess
           /\ Count(collection'.data) = Count(collection.data) ]_vars

(* C3: in every state of a Ready store no two records of the collection     *)
(* share an id, and length() is the number of distinct ids that are set     *)
(* and not removed.                                                         *)
C3_UniqueIds ==
    Ready =>
        /\ \A j, k \in 1..Len(collection.data) :
              collection.data[j]._id = collection.data[k]._id => j = k
        /\ Count(collection.data) = Cardinality(IdsOf(collection.data))

(* C4: no store method ever throws to its caller, in any lifecycle state,   *)
(* also before the load callback has run: every call reaches its callback   *)
(* and reports no error.                                                    *)
C4_NeverThrows ==
    call.op \in FacadeOps =>
        /\ call.outcome = "callback"
        /\ call.err \in {"null", "undefined"}

(* C5: a get(id) issued before the load callback has run delivers          *)
(* not-found with error null at once, for every id: it neither throws nor   *)
(* waits, and the store is left as it was.                                  *)
C5_GetBeforeReady ==
    [][ (call'.op = "get" /\ ~collection.defined)
        => /\ call' = Delivered("get", call'.id, "", 0, "null", NotFound)
           /\ call'.id \in Ids
           /\ UNCHANGED <<options, ttl, collection, disk, now, lastSweep,
                          connects, autosave, raised, logged>> ]_vars

\* a get was answered not-found while the collection was still undefined
C5_Witness ==
    /\ ~Ready
    /\ Completed("get")
    /\ call.err = "null" /\ call.val = NotFound

(* C6: destroy is idempotent.  On a Ready store, destroy(id) of an id       *)
(* without a record reports error null and leaves the collection, hence     *)
(* length() and every record, as it was; after any destroy(id), get(id) is  *)
(* not-found and a second destroy(id) changes nothing more.                 *)
C6_DestroyIdempotent ==
    [][ (call'.op = "destroy" /\ collection.defined)
        => /\ call'.outcome = "callback"
           /\ call'.err = "null"
           /\ Find(collection.data, call'.id) = <<>> => collection' = collection
           /\ Find(collection'.data, call'.id) = <<>>
           /\ GetValue(collection'.data, call'.id) = NotFound
           /\ RemoveId(collection'.data, call'.id) = collection'.data ]_vars

\* a destroy of an id without a record ran on a store that holds other records
C6_Witness ==
    /\ Ready
    /\ Completed("destroy")
    /\ call.matched = 0
    /\ Count(collection.data) > 0

(* C7: after clear() on a Ready store, length() is 0 and get(id) is         *)
(* not-found for every id; an id without a record stays not-found until a   *)
(* set of that very id.                                                     *)
C7_ClearEmpties ==
    [][ /\ (call'.op = "clear" /\ collection.defined)
           => /\ call'.outcome = "callback"
              /\ Count(collection'.data) = 0
              /\ \A i \in Ids : GetValue(collection'.data, i) = NotFound
        /\ \A i \in Ids :
             ( /\ collection.defined
               /\ Find(collection.data, i) = <<>>
               /\ GetValue(collection'.data, i) # NotFound )
             => (call'.op = "set" /\ call'.id = i) ]_vars

\* a clear ran on a store that held records
C7_Witness ==
    /\ Ready
    /\ Completed("clear")
    /\ call.matched > 0
    /\ Count(collection.data) = 0

(* C8: touch(id, newPayload) on an id that has a record sets that record's  *)
(* updatedAt to the current time, never earlier than it was, and writes no  *)
(* payload: every record keeps its session, and get(id) delivers after the  *)
(* touch what it delivered before it.                                       *)
C8_TouchKeepsPayload ==
    [][ (call'.op = "touch" /\ collection.defined
            /\ Find(collection.data, call'.id) # <<>>)
        => LET k == FirstPos(collection.data, call'.id)
           IN  /\ Len(collection'.data) = Len(collection.data)
               /\ \A j \in 1..Len(collection.data) :
                     /\ collection'.data[j]._id = collection.data[j]._id
                     /\ collection'.data[j].session = collection.data[j].session
               /\ collection'.data[k].updatedAt = now
               /\ collection'.data[k].updatedAt >= collection.data[k].updatedAt
               /\ GetValue(collection'.data, call'.id)
                     = GetValue(collection.data, call'.id) ]_vars

\* a touch refreshed, at a later time, a record whose payload get delivers
C8_Witness ==
    /\ Ready
    /\ Completed("touch")
    /\ call.matched > 0
    /\ now > 0
    /\ GetValue(collection.data, call.id) # NotFound
    /\ \E k \in 1..Len(collection.data) :
          /\ collection.data[k]._id = call.id
          /\ collection.data[k].updatedAt = now

(* C9: touch(id, payload) on an id that has no record is a silent no-op:    *)
(* it reaches its callback, creates no record, leaves the collection as it  *)
(* was, and get(id) is still not-found.                                     *)
C9_TouchAbsentNoop ==
    [][ (call'.op = "touch" /\ collection.defined
            /\ Find(collection.data, call'.id) = <<>>)
        => /\ call'.outcome = "callback"
           /\ collection' = collection
           /\ Count(collection'.data) = Count(collection.data)
           /\ GetValue(collection'.data, call'.id) = NotFound ]_vars

\* a touch of an id without a record ran on a store that holds other records
C9_Witness ==
    /\ Ready
    /\ Completed("touch")
    /\ call.matched = 0
    /\ Count(collection.data) > 0

(* C10: a store constructed with ttl = 0 has expiry disabled: no sweep      *)
(* ever removes a record of it.  Stated for a store that found no database  *)
(* file and so created its collection itself, with ttlInterval: this.ttl.   *)
C10_TtlZeroDisablesExpiry ==
    [][ (options.ttl = Some(0) /\ ~disk.exists /\ call'.op = "sweep")
        => collection'.data = collection.data ]_vars

(* C12: the store only moves from Loading to Ready and never leaves        *)
(* Ready, and 'connect' is emitted exactly once per instance, in the very   *)
(* step in which the load callback makes the collection available: never    *)
(* before, never a second time.                                             *)
C12_ReadyOnce ==
    /\ connects = (IF collection.defined THEN 1 ELSE 0)
    /\ [][ /\ collection.defined => collection'.defined
           /\ connects' = (IF collection'.defined THEN 1 ELSE 0)
           /\ (connects' # connects)
                <=> (~collection.defined /\ collection'.defined) ]_vars

\* a Ready store that has emitted 'connect' once and has been used since
C12_Witness ==
    /\ Ready
    /\ connects = 1
    /\ Completed("set")
    /\ now > 0

(* C19: set(id, ...), destroy(id) and touch(id, ...) affect only records    *)
(* with that id: for every other id the records found, with their payload   *)
(* and updatedAt, are the same after the call as before it.                 *)
C19_OtherIdsUntouched ==
    [][ (call'.op \in {"set", "destroy", "touch"} /\ collection.defined)
        => \A j \in Ids \ {call'.id} :
              Find(collection'.data, j) = Find(collection.data, j) ]_vars

\* a destroy removed the records of its id and left a record of the other id
C19_Witness ==
    /\ Ready
    /\ Completed("destroy")
    /\ call.matched > 0
    /\ \E j \in Ids \ {call.id} : Find(collection.data, j) # <<>>

(* C20: get and length are read-only: neither changes the collection (the   *)
(* set of records, a payload, an updatedAt) nor anything else of the store, *)
(* so a get does not postpone expiry; a record is new or changed after a    *)
(* step only if the step is a set, a touch or the load.                     *)
C20_ReadsAreReadOnly ==
    [][ /\ call'.op \in {"get", "length"}
           => UNCHANGED <<options, ttl, collection, disk, now, lastSweep,
                          connects, autosave, raised, logged>>
        /\ (collection.defined /\ call'.op \notin {"set", "touch"})
           => \A k \in 1..Len(collection'.data) :
                 \E j \in 1..Len(collection.data) :
                    collection.data[j] = collection'.data[k] ]_vars

\* a get delivered the payload of a record last refreshed at an earlier time
C20_Witness ==
    /\ Ready
    /\ Completed("get")
    /\ call.val # NotFound
    /\ \E k \in 1..Len(collection.data) :
          /\ collection.data[k]._id = call.id
          /\ collection.data[k].updatedAt < now

(* C17: a sweep removes only stale records.  It adds and changes nothing,   *)
(* and a record whose updatedAt was refreshed less than ttl ago is still    *)
(* there after it; so a sweep that follows a touch of an existing id keeps  *)
(* the touched record, and get(id) delivers what it delivered before.       *)
C17_SweepSparesFresh ==
    [][ call'.op = "sweep"
        => /\ \A k \in 1..Len(collection.data) :
                now - collection.data[k].updatedAt < collection.ttlInterval[1]
                => \E j \in 1..Len(collection'.data) :
                      collection'.data[j] = collection.data[k]
           /\ \A j \in 1..Len(collection'.data) :
                \E k \in 1..Len(collection.data) :
                   collection.data[k] = collection'.data[j]
           /\ (Completed("touch") /\ call.matched > 0)
                => /\ Find(collection'.data, call.id) # <<>>
                   /\ GetValue(collection'.data, call.id)
                         = GetValue(collection.data, call.id) ]_vars

\* a sweep removed a stale record and kept a fresh one
C17_Witness ==
    /\ Ready
    /\ call.op = "sweep"
    /\ call.matched > 0
    /\ Count(collection.data) > 0

\* the clock readings a record's updatedAt can hold
Stamps == { k * TickStep : k \in 0..MaxTicks }

\* the collection holds a record of id i last refreshed at u
Has(i, u) ==
    /\ Ready
    /\ \E k \in 1..Len(collection.data) :
          /\ collection.data[k]._id = i
          /\ collection.data[k].updatedAt = u

\* every record of id i in data is older than age at time t
AllStale(data, i, age, t) ==
    \A k \in 1..Len(data) : data[k]._id = i => Stale(data[k], age, t)

(* C11: with ttl > 0, a record that is set and then neither set nor         *)
(* touched again is eventually removed by a sweep once its age exceeds      *)
(* ttl, with no destroy call: a record older than ttl does not stay as it   *)
(* is.  The sweeps are at least one ttl apart, leave no record older than   *)
(* ttl, and get(id) is not-found once every record of the id was stale.     *)
C11_StaleEventuallySwept ==
    /\ \A i \in Ids, u \in Stamps :
          ( /\ options.ttl # None
            /\ options.ttl[1] > 0
            /\ Has(i, u)
            /\ now - u > options.ttl[1] )
          ~> ~Has(i, u)
    /\ [][ call'.op = "sweep"
           => /\ now - lastSweep >= collection.ttlInterval[1]
              /\ \A k \in 1..Len(collection'.data) :
                    ~Stale(collection'.data[k], collection.ttlInterval[1], now)
              /\ \A i \in Ids :
                    AllStale(collection.data, i, collection.ttlInterval[1], now)
                    => GetValue(collection'.data, i) = NotFound ]_vars

\* on a store constructed with ttl 1, a sweep removed a record that had been
\* set, and get of its id is not-found
C11_Witness ==
    /\ options.ttl = Some(1)
    /\ Ready
    /\ call.op = "sweep"
    /\ call.matched > 0
    /\ \E i \in Ids : GetValue(collection.data, i) = NotFound
                         /\ Find(collection.data, i) = <<>>
    /\ Count(collection.data) = 0

----------------------------------------------------------------------------
(* The life of one instance: every operation of the store on a store that  *)
(* found no database file, with one payload, and the timer and the clock   *)
(* taking their steps whenever these stay possible.                        *)

LifeNext ==
    \/ Load
    \/ \E _id \in Ids : Get(_id)
    \/ \E _id \in Ids : Set(_id, "p")
    \/ \E _id \in Ids : Destroy(_id)
    \/ Clear
    \/ Length
    \/ \E _id \in Ids : Touch(_id, "p")
    \/ Tick
    \/ Sweep

LifeSpec ==
    /\ ExpiryInit
    /\ [][LifeNext]_vars
    /\ WF_vars(Sweep)
    /\ WF_vars(Tick)

\* the collection's TTL timer is running
SweepArmed == Ready /\ collection.ttlInterval # None

\* a background task of the store is running: the TTL timer or the autosave
\* timer of the Loki client
TimersArmed == SweepArmed \/ (Ready /\ autosave)

----------------------------------------------------------------------------
(* Claims about persistence and the error handler, under PersistSpec *)

(* C13: every adapter load error and every adapter save error is forwarded  *)
(* to the configured error handler: the handler has been called once for    *)
(* each error the adapter raised.                                           *)
C13_ErrorsForwarded == logged = raised

(* C14: persist round trip.  When a new instance loads a database file in   *)
(* which every id has one record, as a save after set("X", P1) and          *)
(* set("Y", P2) leaves it, the loaded collection is reused and get of each   *)
(* saved id delivers the saved payload.                                     *)
C14_PersistRoundTrip ==
    [][ (call'.op = "load" /\ disk.exists /\ disk.readable
           /\ \A i \in Ids : Len(Find(Deserialize(disk.data), i)) <= 1)
        => /\ collection'.data = Deserialize(disk.data)
           /\ \A i \in IdsOf(Deserialize(disk.data)) :
                 GetValue(collection'.data, i)
                   = Find(Deserialize(disk.data), i)[1].session ]_vars

(* C15: autosave is on unless the autosave option is exactly false; while   *)
(* it is on and the store is Ready a save can always be attempted, also     *)
(* after a failed one; a failed save leaves file and collection as they     *)
(* were, and a save that succeeds leaves in the file exactly the documents  *)
(* the collection holds at that moment.                                     *)
C15_AutosaveKeepsSaving ==
    [][ /\ autosave = (options.autosave # "false")
        /\ (Ready /\ autosave) => ENABLED Autosave
        /\ (call'.op = "save" /\ call'.err # "null")
             => (disk' = disk /\ collection' = collection
                 /\ autosave' /\ ENABLED Autosave)
        /\ (call'.op = "save" /\ call'.err = "null")
             => /\ collection' = collection
                /\ disk'.exists /\ disk'.readable
                /\ Deserialize(disk'.data) = collection.data ]_vars

\* a save has succeeded after MaxErrors adapter errors, in a store whose
\* autosave option is 0, and the file holds the two documents of the
\* collection
C15_Witness ==
    /\ options.autosave = "0"
    /\ call.op = "save"
    /\ call.err = "null"
    /\ raised = MaxErrors
    /\ Len(collection.data) = 2
    /\ Deserialize(disk.data) = collection.data

(* C18: on a Ready store every set, destroy, touch and clear changes the    *)
(* collection in memory and calls back, and leaves the database file as it  *)
(* was: the file changes only in a save of the autosave timer.              *)
C18_NoWaitForSave ==
    [][ /\ (Ready /\ call'.op \in {"set", "destroy", "touch", "clear"})
             => /\ call'.outcome = "callback"
                /\ disk' = disk
                /\ call'.op = "set" =>
                      \E k \in 1..Len(collection'.data) :
                         collection'.data[k] =
                            [_id |-> call'.id, session |-> call'.sess,
                             updatedAt |-> now]
                /\ call'.op = "destroy" =>
                      Find(collection'.data, call'.id) = <<>>
                /\ call'.op = "clear" => collection'.data = <<>>
                /\ (call'.op = "touch" /\ Find(collection.data, call'.id) # <<>>)
                      => Find(collection'.data, call'.id)[1].updatedAt = now
        /\ disk' # disk => (call'.op = "save" /\ call'.err = "null") ]_vars

\* a set has called back on a Ready store whose database file, written by
\* an earlier save, does not hold the document just set
C18_Witness ==
    /\ Ready
    /\ Completed("set")
    /\ call.sess = "p"
    /\ disk.exists
    /\ disk.readable
    /\ Find(collection.data, call.id) # <<>>
    /\ Find(Deserialize(disk.data), call.id) = <<>>
    /\ autosave

====
